---- MODULE Spec2Model ----
(***************************************************************************)
(* Account / Tx data model and authentication layer of src/src/lib.rs.     *)
(*                                                                         *)
(* Two specifications share the module's variables:                        *)
(*   Spec    the Account ledger operations and the Account codec;          *)
(*   SpecTx  the Tx lifecycle: new, sign, sig_check, field writes, codec.  *)
(*                                                                         *)
(* Bytes are the integers 0..255 and byte strings are sequences of them.   *)
(* The rlp, sha3, secp256k1 and multiproof_rs crates are outside the       *)
(* repository; they are written out here as their callers in lib.rs rely   *)
(* on them: RLP byte for byte, Keccak and the curve as ideal primitives    *)
(* (deterministic, no collisions on the inputs the model reaches,          *)
(* recover(sign(m, k)) = pub(k), any other signature recovers a key that   *)
(* nobody holds or fails to recover).                                      *)
(***************************************************************************)
EXTENDS Integers, Sequences, FiniteSets, TLC

VARIABLES
    acct,          \* the Account value the ledger operations act on
    startedEmpty,  \* history: acct was Account::Empty in the initial state
    tx,            \* the Tx value, NoTx before Tx::new
    signer,        \* history: secret key of the last sign that returned, NoKey if none
    signedTx,      \* history: tx as the last sign that returned left it (NoTx if none)
    tampered,      \* history: index of the signature byte altered since the last sign, 0 if none
    edits,         \* history: number of field writes on tx
    chk,           \* result of the last sig_check, NoCheck once tx was written since
    chkAge,        \* history: "fresh" right after sig_check, "recoded" once tx was encoded and
                   \* decoded since, "stale" once tx was written since
    wire,          \* the encoded bytes in transit, where they come from and the value encoded
    decoded,       \* result of the last Account decode
    last,          \* the last operation: its name, argument, result, and the value before it
    aborted,       \* the process panicked
    overflowChecks,\* the build checks integer overflow (debug) or wraps (release)
    steps          \* number of ledger operations so far

vars == <<acct, startedEmpty, tx, signer, signedTx, tampered, edits, chk, chkAge,
          wire, decoded, last, aborted, overflowChecks, steps>>

---------------------------------------------------------------------------
(* Bounds of the model *)

\* u64 is modelled WordBytes bytes wide
WordBytes == 2
\* u32 is modelled U32Bytes bytes wide
U32Bytes == 1
\* secret keys 1..NKeys (each a 32-byte array of that byte), beside the invalid all-zero key
NKeys == 2
\* ledger operations per behaviour
MaxSteps == 3
\* field writes on a Tx per behaviour
MaxEdits == 1
\* largest outer item count of an injected payload
MaxItems == 6

(* Program constants *)

SigLen == 65
SigBodyLen == 64
AddrLen == 20
DigestLen == 32
KeyLen == 32
AccountItems == 5

U64Modulus == 256 ^ WordBytes
U64Max == U64Modulus - 1

---------------------------------------------------------------------------
(* Byte strings *)

Repeat(b, n) == [i \in 1..n |-> b]

Take(s, n) == SubSeq(s, 1, n)

Drop(s, n) == SubSeq(s, n + 1, Len(s))

RECURSIVE Concat(_)
Concat(ss) == IF ss = <<>> THEN <<>> ELSE Head(ss) \o Concat(Tail(ss))

\* big-endian bytes of n without leading zeros (0 is the empty string)
RECURSIVE ToBE(_)
ToBE(n) == IF n = 0 THEN <<>> ELSE Append(ToBE(n \div 256), n % 256)

RECURSIVE FromBE(_)
FromBE(s) == IF s = <<>> THEN 0 ELSE FromBE(Take(s, Len(s) - 1)) * 256 + s[Len(s)]

---------------------------------------------------------------------------
(* rlp: RlpStream *)

\* RlpStream::append of a byte string (Vec<u8>, &[u8])
RlpBytes(s) ==
    IF Len(s) = 1 /\ s[1] < 128 THEN s
    ELSE IF Len(s) <= 55 THEN <<128 + Len(s)>> \o s
    ELSE <<183 + Len(ToBE(Len(s)))>> \o ToBE(Len(s)) \o s

\* RlpStream::append of an unsigned integer (u32, u64)
RlpUint(n) == RlpBytes(ToBE(n))

\* RlpStream::append_empty_data
RlpEmptyData == <<128>>

\* begin_unbounded_list ... finalize_unbounded_list around the appended items
RlpList(items) ==
    LET payload == Concat(items)
    IN  IF Len(payload) <= 55 THEN <<192 + Len(payload)>> \o payload
        ELSE <<247 + Len(ToBE(Len(payload)))>> \o ToBE(Len(payload)) \o payload

---------------------------------------------------------------------------
(* rlp: Rlp, the decoder's view of a byte string *)

Ok(v) == [ok |-> TRUE, val |-> v]

Err(e) == [ok |-> FALSE, err |-> e]

\* PayloadInfo::from: header length, payload length and kind of the item b starts with
PayloadInfo(b) ==
    IF b = <<>> THEN Err("RlpIsTooShort")
    ELSE IF b[1] < 128 THEN Ok([list |-> FALSE, header |-> 0, len |-> 1])
    ELSE IF b[1] <= 183 THEN Ok([list |-> FALSE, header |-> 1, len |-> b[1] - 128])
    ELSE IF b[1] <= 191 THEN
        LET ll == b[1] - 183
        IN  IF Len(b) < 1 + ll THEN Err("RlpIsTooShort")
            ELSE IF b[2] = 0 THEN Err("RlpDataLenWithZeroPrefix")
            ELSE Ok([list |-> FALSE, header |-> 1 + ll, len |-> FromBE(SubSeq(b, 2, 1 + ll))])
    ELSE IF b[1] <= 247 THEN Ok([list |-> TRUE, header |-> 1, len |-> b[1] - 192])
    ELSE
        LET ll == b[1] - 247
        IN  IF Len(b) < 1 + ll THEN Err("RlpIsTooShort")
            ELSE IF b[2] = 0 THEN Err("RlpListLenWithZeroPrefix")
            ELSE Ok([list |-> TRUE, header |-> 1 + ll, len |-> FromBE(SubSeq(b, 2, 1 + ll))])

\* the items of a list payload, up to the first one that does not parse (Rlp::iter)
RECURSIVE RlpItems(_)
ItemsAfter(p, pi) ==
    IF ~pi.ok \/ pi.val.header + pi.val.len > Len(p) THEN <<>>
    ELSE <<Take(p, pi.val.header + pi.val.len)>> \o RlpItems(Drop(p, pi.val.header + pi.val.len))

RlpItems(p) == ItemsAfter(p, PayloadInfo(p))

\* Rlp::is_list
is_list(b) == b # <<>> /\ b[1] >= 192

\* the payload of the item b, its header stripped
PayloadOf(b, pi) ==
    IF ~pi.ok \/ pi.val.header + pi.val.len > Len(b) THEN <<>>
    ELSE SubSeq(b, pi.val.header + 1, pi.val.header + pi.val.len)

RlpPayload(b) == PayloadOf(b, PayloadInfo(b))

\* Rlp::item_count
item_count(b) ==
    IF is_list(b) THEN Ok(Len(RlpItems(RlpPayload(b)))) ELSE Err("RlpExpectedToBeList")

\* Rlp::at
ItemAt(b, i, items) ==
    IF ~is_list(b) THEN Err("RlpExpectedToBeList")
    ELSE IF i + 1 > Len(items) THEN Err("RlpIsTooShort")
    ELSE Ok(items[i + 1])

at(b, i) == ItemAt(b, i, RlpItems(RlpPayload(b)))

\* BasicDecoder::decode_value: the data bytes of a non-list item
ValueOf(item, pi) ==
    IF ~pi.ok THEN pi
    ELSE IF pi.val.list THEN Err("RlpExpectedToBeData")
    ELSE IF pi.val.header + pi.val.len > Len(item) THEN Err("RlpInconsistentLengthAndData")
    ELSE IF pi.val.header = 1 /\ pi.val.len = 1 /\ item[2] < 128
         THEN Err("RlpInvalidIndirection")
    ELSE Ok(SubSeq(item, pi.val.header + 1, pi.val.header + pi.val.len))

decode_value(item) == ValueOf(item, PayloadInfo(item))

\* Decodable for Vec<u8>
DecodeBytes(item) == decode_value(item)

\* Decodable for an unsigned integer size bytes wide
UintOf(d, size) ==
    IF ~d.ok THEN d
    ELSE IF d.val = <<>> THEN Ok(0)
    ELSE IF d.val[1] = 0 THEN Err("RlpInvalidIndirection")
    ELSE IF Len(d.val) > size THEN Err("RlpIsTooBig")
    ELSE Ok(FromBE(d.val))

DecodeUint(item, size) == UintOf(decode_value(item), size)

\* Rlp::val_at::<Vec<u8>>
BytesOfItem(item) == IF item.ok THEN DecodeBytes(item.val) ELSE item

val_at_bytes(b, i) == BytesOfItem(at(b, i))

\* Rlp::val_at::<u64> and ::<u32>
UintOfItem(item, size) == IF item.ok THEN DecodeUint(item.val, size) ELSE item

val_at_uint(b, i, size) == UintOfItem(at(b, i), size)

---------------------------------------------------------------------------
(* multiproof_rs: ByteKey and NibbleKey *)

\* NibbleKey::from(ByteKey): two nibbles per byte, high nibble first
RECURSIVE NibblesOfBytes(_)
NibblesOfBytes(bytes) ==
    IF bytes = <<>> THEN <<>>
    ELSE <<Head(bytes) \div 16, Head(bytes) % 16>> \o NibblesOfBytes(Tail(bytes))

\* NibbleKey::from(Vec<u8>): the vector is taken as the nibbles
NibblesOfVec(v) == v

\* Encodable for NibbleKey: the nibbles as one byte string, a nibble per byte
RlpNibbleKey(key) == RlpBytes(key)

---------------------------------------------------------------------------
(* sha3 and secp256k1 as ideal primitives.  Two running sums stand for the *)
(* permutation: Expand(tag, s, n) is an n-byte string that two different   *)
(* (tag, s) of the model never share.                                      *)

\* the weight of position i in a running sum
Weight(i, mult, modulus) == (i * i * 31 + i * mult + 7) % modulus

\* the sum over i in lo..hi of (s[i] + 1) * Weight(i), modulo modulus
RECURSIVE Mix(_, _, _, _, _)
Mix(s, lo, hi, mult, modulus) ==
    IF lo > hi THEN 0
    ELSE IF lo = hi THEN ((s[lo] + 1) * Weight(lo, mult, modulus)) % modulus
    ELSE LET mid == (lo + hi) \div 2
         IN  (Mix(s, lo, mid, mult, modulus) + Mix(s, mid + 1, hi, mult, modulus)) % modulus

\* n bytes that carry the two sums a and b
Spread(a, b, n) ==
    [i \in 1..n |->
        CASE i = 1 -> a \div 256
          [] i = 2 -> a % 256
          [] i = 3 -> b \div 256
          [] i = 4 -> b % 256
          [] OTHER -> (a * i + b + i * i) % 256]

ExpandTagged(ts, n) ==
    Spread(Mix(ts, 1, Len(ts), 257, 46337), Mix(ts, 1, Len(ts), 263, 46327), n)

Expand(tag, s, n) == ExpandTagged(<<tag>> \o s, n)

\* Keccak256::new, input, result (result_reset leaves a new hasher behind)
KeccakNew == <<>>

KeccakInput(hasher, bytes) == hasher \o bytes

KeccakResult(hasher) == Expand(1, hasher, DigestLen)

\* the secret keys callers hand in: KeyLen copies of one byte
SKey(b) == Repeat(b, KeyLen)

\* SecretKey::parse: zero is no scalar of the curve
SecretKeyParse(skey) == IF skey = Repeat(0, KeyLen) THEN Err("InvalidSecretKey") ELSE Ok(skey)

ValidKeys == {SKey(b) : b \in 1..NKeys}

\* PublicKey::serialize: the uncompressed point, 65 bytes
PublicKeySerialize(sk) == <<4>> \o Expand(2, sk, 64)

\* secp256k1::sign: deterministic (RFC 6979), r and s never zero, s in the low half
SignatureOf(raw) ==
    [sig |-> [i \in 1..SigBodyLen |->
                 CASE i = 32 -> (raw[32] \div 2) * 2 + 1
                   [] i = 33 -> raw[33] % 128
                   [] i = 64 -> 1 + (raw[64] % 255)
                   [] OTHER -> raw[i]],
     recid |-> raw[5] % 2]

secp256k1_sign(msg, sk) == SignatureOf(Expand(3, sk \o msg, SigBodyLen))

\* Signature::parse_slice
SignatureParseSlice(p) == IF Len(p) = SigBodyLen THEN Ok(p) ELSE Err("InvalidInputLength")

\* RecoveryId::parse
RecoveryIdParse(b) == IF b < 4 THEN Ok(b) ELSE Err("InvalidRecoveryId")

\* whether r is the x coordinate of a curve point (about every other value is)
OnCurve(r) == r[32] % 2 = 1

\* the keys of the model whose signature of msg is (sig, recid)
SignersOf(msg, sig, recid) ==
    {sk \in ValidKeys : secp256k1_sign(msg, sk) = [sig |-> sig, recid |-> recid]}

\* secp256k1::recover: the public key (serialized) that signed msg with sig, if any
RecoverAmong(signers, msg, sig, recid) ==
    IF Take(sig, 32) = Repeat(0, 32) \/ Drop(sig, 32) = Repeat(0, 32)
    THEN Err("InvalidSignature")
    ELSE IF signers # {} THEN Ok(PublicKeySerialize(CHOOSE sk \in signers : TRUE))
    ELSE IF recid >= 2 \/ ~OnCurve(Take(sig, 32)) THEN Err("InvalidSignature")
    ELSE Ok(<<4>> \o Expand(5, msg \o sig \o <<recid>>, 64))

secp256k1_recover(msg, sig, recid) ==
    RecoverAmong(SignersOf(msg, sig, recid), msg, sig, recid)

\* secp256k1::verify: a signature with s in the high half is refused
Recovered(rec, pkey) == rec.ok /\ rec.val = pkey

secp256k1_verify(msg, sig, pkey) ==
    /\ sig[33] < 128
    /\ \E recid \in 0..1 : Recovered(secp256k1_recover(msg, sig, recid), pkey)

---------------------------------------------------------------------------
(* enum Account *)

Empty == [tag |-> "Empty"]

Existing(addr, nonce, balance, code, state) ==
    [tag |-> "Existing", addr |-> addr, nonce |-> nonce, balance |-> balance,
     code |-> code, state |-> state]

\* the error strings of deposit and withdraw
ErrDepositEmpty == "can not increase the balance of an empty account"

ErrWithdrawEmpty == "Can not increase the balance of an empty account"

ErrInsufficient == "Insufficient balance"

\* Account::balance
balance(a) == IF a.tag = "Existing" THEN a.balance ELSE 0

\* Account::balance_mut: Some(reference to the balance) or None
balance_mut(a) == IF a.tag = "Existing" THEN "Some" ELSE "None"

\* Account::nonce
nonce(a) == IF a.tag = "Existing" THEN a.nonce ELSE 0

\* Account::nonce_mut: Some(reference to the nonce) or None
nonce_mut(a) == IF a.tag = "Existing" THEN "Some" ELSE "None"

\* *balance += amount on a u64: an overflow panics where the build checks it and wraps where not
AddAssign(b, amount, checked) ==
    IF b + amount <= U64Max THEN [panic |-> FALSE, val |-> b + amount]
    ELSE IF checked THEN [panic |-> TRUE, val |-> b]
    ELSE [panic |-> FALSE, val |-> (b + amount) % U64Modulus]

\* deposit as it would be if it created the account it was called on
deposit_promotes(a, amount, checked) ==
    IF a.tag = "Existing"
    THEN LET sum == AddAssign(a.balance, amount, checked)
         IN  IF sum.panic THEN [res |-> "panic", acct |-> a]
             ELSE [res |-> "Ok", acct |-> [a EXCEPT !.balance = sum.val]]
    ELSE [res |-> "Ok", acct |-> Existing(<<>>, 0, amount, <<>>, <<>>)]

\* Account::deposit
deposit(a, amount, checked) ==
    IF a.tag = "Existing"
    THEN LET sum == AddAssign(a.balance, amount, checked)
         IN  IF sum.panic THEN [res |-> "panic", acct |-> a]
             ELSE [res |-> "Ok", acct |-> [a EXCEPT !.balance = sum.val]]
    ELSE [res |-> ErrDepositEmpty, acct |-> a]

\* withdraw as it would be if it took what there is before refusing
withdraw_drains(a, amount, checked) ==
    IF a.tag = "Existing"
    THEN IF a.balance >= amount
         THEN LET sum == AddAssign(a.balance, amount, checked)
              IN  IF sum.panic THEN [res |-> "panic", acct |-> a]
                  ELSE [res |-> "Ok", acct |-> [a EXCEPT !.balance = sum.val]]
         ELSE [res |-> ErrInsufficient, acct |-> [a EXCEPT !.balance = 0]]
    ELSE [res |-> ErrWithdrawEmpty, acct |-> a]

\* Account::withdraw
withdraw(a, amount, checked) ==
    IF a.tag = "Existing"
    THEN IF a.balance >= amount
         THEN LET sum == AddAssign(a.balance, amount, checked)
              IN  IF sum.panic THEN [res |-> "panic", acct |-> a]
                  ELSE [res |-> "Ok", acct |-> [a EXCEPT !.balance = sum.val]]
         ELSE [res |-> ErrInsufficient, acct |-> a]
    ELSE [res |-> ErrWithdrawEmpty, acct |-> a]

\* the address From<SecretKey> for Account derives: sign a fixed message, recover the
\* public key, hash it, keep the first 20 bytes
RecoverSigned(msg, sg) == secp256k1_recover(msg, sg.sig, sg.recid).val

AddressOf(sk) ==
    LET msg == Repeat(85, DigestLen)
        user1_pkey == RecoverSigned(msg, secp256k1_sign(msg, sk))
        keccak256 == KeccakInput(KeccakNew, user1_pkey)
    IN  Take(KeccakResult(keccak256), AddrLen)

\* From<SecretKey> for Account
AccountFrom(sk) == Existing(NibblesOfBytes(AddressOf(sk)), 0, 0, <<>>, <<>>)

\* Encodable for Account
rlp_append_Account(a) ==
    IF a.tag = "Empty" THEN RlpEmptyData
    ELSE RlpList(<<RlpNibbleKey(a.addr), RlpUint(a.nonce), RlpUint(a.balance),
                   RlpBytes(a.code), RlpBytes(a.state)>>)

\* Decodable for Account: Ok(account), Err(decoder error), or a panic
AccountOf(n, addr, nonce_, balance_, code, state) ==
    IF ~n.ok THEN [kind |-> "Err", err |-> n.err]
    ELSE IF n.val = AccountItems
    THEN IF ~addr.ok THEN [kind |-> "Err", err |-> addr.err]
         ELSE IF ~nonce_.ok THEN [kind |-> "Err", err |-> nonce_.err]
         ELSE IF ~balance_.ok THEN [kind |-> "Err", err |-> balance_.err]
         ELSE IF ~code.ok THEN [kind |-> "Err", err |-> code.err]
         ELSE IF ~state.ok THEN [kind |-> "Err", err |-> state.err]
         ELSE [kind |-> "Ok",
               val |-> Existing(NibblesOfVec(addr.val), nonce_.val, balance_.val,
                                code.val, state.val)]
    ELSE IF n.val = 0 THEN [kind |-> "Ok", val |-> Empty]
    ELSE [kind |-> "panic", count |-> n.val]

decode_Account(b) ==
    AccountOf(item_count(b), val_at_bytes(b, 0), val_at_uint(b, 1, WordBytes),
              val_at_uint(b, 2, WordBytes), val_at_bytes(b, 3), val_at_bytes(b, 4))

---------------------------------------------------------------------------
(* struct Tx *)

\* Tx::new
TxNew(from, to, nonce_) ==
    [tag |-> "Tx",
     from |-> NibblesOfBytes(from),
     to |-> NibblesOfBytes(to),
     nonce |-> nonce_,
     signature |-> Repeat(0, SigLen),
     call |-> 0,
     value |-> 0,
     data |-> <<>>]

\* the digest Tx::sign signs: six inputs to one hasher, then result()
SignDigest(t) ==
    LET k1 == KeccakInput(KeccakNew, RlpNibbleKey(t.from))
        k2 == KeccakInput(k1, RlpNibbleKey(t.to))
        k3 == KeccakInput(k2, RlpUint(t.nonce))
        k4 == KeccakInput(k3, RlpUint(t.value))
        k5 == KeccakInput(k4, RlpUint(t.call))
        k6 == KeccakInput(k5, RlpBytes(t.data))
    IN  KeccakResult(k6)

\* Tx::sign: panics on a key SecretKey::parse refuses, else writes the signature field
\* a store that would also advance the nonce
StoreSignatureAndNonce(t, sg) ==
    [t EXCEPT !.nonce = (t.nonce + 1) % U64Modulus,
              !.signature = [i \in 1..Len(t.signature) |->
                                IF i <= SigBodyLen THEN sg.sig[i]
                                ELSE IF i = SigBodyLen + 1 THEN sg.recid
                                ELSE t.signature[i]]]

\* self.signature[..64].copy_from_slice(sig); self.signature[64] = recid
StoreSignature(t, sg) ==
    [t EXCEPT !.signature =
        [i \in 1..Len(t.signature) |->
            IF i <= SigBodyLen THEN sg.sig[i]
            ELSE IF i = SigBodyLen + 1 THEN sg.recid
            ELSE t.signature[i]]]

sign(t, skey) ==
    IF ~SecretKeyParse(skey).ok \/ Len(t.signature) < SigLen THEN [res |-> "panic", tx |-> t]
    ELSE [res |-> "Ok", tx |-> StoreSignature(t, secp256k1_sign(SignDigest(t), skey))]

\* a hasher that would leave the data field out
SigCheckHasherNoData(t) ==
    LET k1 == KeccakInput(KeccakNew, RlpNibbleKey(t.from))
        k2 == KeccakInput(k1, RlpNibbleKey(t.to))
        k3 == KeccakInput(k2, RlpUint(t.nonce))
        k4 == KeccakInput(k3, RlpUint(t.value))
    IN  KeccakInput(k4, RlpUint(t.call))

\* the hasher of Tx::sig_check after its six inputs
SigCheckHasher(t) ==
    LET k1 == KeccakInput(KeccakNew, RlpNibbleKey(t.from))
        k2 == KeccakInput(k1, RlpNibbleKey(t.to))
        k3 == KeccakInput(k2, RlpUint(t.nonce))
        k4 == KeccakInput(k3, RlpUint(t.value))
        k5 == KeccakInput(k4, RlpUint(t.call))
    IN  KeccakInput(k5, RlpBytes(t.data))

\* the digest Tx::sig_check recomputes
SigCheckDigest(t) == KeccakResult(SigCheckHasher(t))

Panic == [kind |-> "panic", valid |-> FALSE, addr |-> <<>>]

Returns(valid, addr) == [kind |-> "ret", valid |-> valid, addr |-> addr]

\* a finalisation that would leave the inputs in the hasher
HasherKept(hasher) == hasher

\* the hasher result_reset leaves behind
HasherAfterReset(hasher) == KeccakNew

\* Tx::sig_check: (valid, address), or a panic where an unwrap meets an Err
\* lines 216-220: the address of the recovered key, compared with self.from
AddressMatch(from, addr) == Returns(addr = from, addr)

\* lines 208-220, past the parsing of the signature field
CheckRecovered(t, message, keccak256, signature, pkey) ==
    IF ~pkey.ok THEN Panic
    ELSE IF ~secp256k1_verify(message, signature, pkey.val)
         THEN Returns(FALSE, NibblesOfVec(<<>>))
    ELSE AddressMatch(t.from,
             NibblesOfBytes(Take(KeccakResult(KeccakInput(keccak256, pkey.val)), AddrLen)))

\* lines 206-220, past the digest
CheckSignature(t, message, keccak256, signature, recover) ==
    IF ~signature.ok \/ ~recover.ok THEN Panic
    ELSE CheckRecovered(t, message, keccak256, signature.val,
                        secp256k1_recover(message, signature.val, recover.val))

sig_check(t) ==
    IF Len(t.signature) < SigLen THEN Panic
    ELSE CheckSignature(t, SigCheckDigest(t), HasherAfterReset(SigCheckHasher(t)),
                        SignatureParseSlice(Take(t.signature, SigBodyLen)),
                        RecoveryIdParse(t.signature[SigBodyLen + 1]))

\* Encodable for Tx
rlp_append_Tx(t) ==
    RlpList(<<RlpNibbleKey(t.from), RlpNibbleKey(t.to), RlpUint(t.nonce), RlpUint(t.value),
              RlpUint(t.call), RlpBytes(t.data), RlpBytes(t.signature)>>)

\* Decodable for Tx
TxOf(from, to, nonce_, value, call, data, signature) ==
    IF ~from.ok THEN from
    ELSE IF ~to.ok THEN to
    ELSE IF ~nonce_.ok THEN nonce_
    ELSE IF ~value.ok THEN value
    ELSE IF ~call.ok THEN call
    ELSE IF ~data.ok THEN data
    ELSE IF ~signature.ok THEN signature
    ELSE Ok([tag |-> "Tx",
             from |-> NibblesOfVec(from.val),
             to |-> NibblesOfVec(to.val),
             nonce |-> nonce_.val,
             value |-> value.val,
             call |-> call.val,
             data |-> data.val,
             signature |-> signature.val])

decode_Tx(b) ==
    TxOf(val_at_bytes(b, 0), val_at_bytes(b, 1), val_at_uint(b, 2, WordBytes),
         val_at_uint(b, 3, WordBytes), val_at_uint(b, 4, U32Bytes), val_at_bytes(b, 5),
         val_at_bytes(b, 6))

---------------------------------------------------------------------------
(* The ledger specification: one Account, the calls made on it, its codec *)

NoTx == [tag |-> "NoTx"]

NoKey == <<>>

NoCheck == [kind |-> "none", valid |-> FALSE, addr |-> <<>>]

NoWire == [bytes |-> <<>>, origin |-> "none", src |-> Empty]

txVars == <<tx, signer, signedTx, tampered, edits, chk, chkAge>>

\* the amounts and values callers pass
Amounts == {0, 1, U64Max}

Written == {7}

InitBalances == {0, 300, U64Max}

InitNonces == {0, 1}

InitCodes == {<<>>, <<96, 0, 200>>}

InitAccounts ==
    {Empty} \cup {AccountFrom(sk) : sk \in ValidKeys}
            \cup {Existing(NibblesOfBytes(AddressOf(SKey(1))), n, b, c, <<>>) :
                     n \in InitNonces, b \in InitBalances, c \in InitCodes}

TxIdle ==
    /\ tx = NoTx /\ signer = NoKey /\ signedTx = NoTx /\ tampered = 0 /\ edits = 0
    /\ chk = NoCheck /\ chkAge = "stale"

Init ==
    /\ acct \in InitAccounts
    /\ startedEmpty = (acct = Empty)
    /\ overflowChecks \in BOOLEAN
    /\ wire = NoWire
    /\ decoded = [kind |-> "none"]
    /\ last = [op |-> "init", arg |-> 0, res |-> "none", val |-> 0, pre |-> acct]
    /\ aborted = FALSE
    /\ steps = 0
    /\ TxIdle

Running == ~aborted /\ steps < MaxSteps

\* a call on acct: what it returned and what it left
Call(op, arg, res, val, after) ==
    /\ Running
    /\ acct' = after
    /\ last' = [op |-> op, arg |-> arg, res |-> res, val |-> val, pre |-> acct]
    /\ aborted' = (res = "panic")
    /\ steps' = steps + 1
    /\ UNCHANGED <<startedEmpty, overflowChecks, wire, decoded>>
    /\ UNCHANGED txVars

Balance == Call("balance", 0, "Ok", balance(acct), acct)

Nonce == Call("nonce", 0, "Ok", nonce(acct), acct)

\* balance_mut, and a write through the reference when there is one
BalanceMut ==
    \E v \in Written :
        Call("balance_mut", v, balance_mut(acct), 0,
             IF balance_mut(acct) = "Some" THEN [acct EXCEPT !.balance = v] ELSE acct)

\* nonce_mut, and a write through the reference when there is one
NonceMut ==
    \E v \in Written :
        Call("nonce_mut", v, nonce_mut(acct), 0,
             IF nonce_mut(acct) = "Some" THEN [acct EXCEPT !.nonce = v] ELSE acct)

Deposit ==
    \E amount \in Amounts :
        LET r == deposit(acct, amount, overflowChecks)
        IN  Call("deposit", amount, r.res, 0, r.acct)

Withdraw ==
    \E amount \in Amounts :
        LET r == withdraw(acct, amount, overflowChecks)
        IN  Call("withdraw", amount, r.res, 0, r.acct)

\* rlp::encode(&acct)
EncodeAccount ==
    /\ Running
    /\ wire' = [bytes |-> rlp_append_Account(acct), origin |-> "encode", src |-> acct]
    /\ last' = [op |-> "encode", arg |-> 0, res |-> "Ok", val |-> 0, pre |-> acct]
    /\ steps' = steps + 1
    /\ UNCHANGED <<acct, startedEmpty, overflowChecks, decoded, aborted>>
    /\ UNCHANGED txVars

\* bytes from outside: a list of n one-byte items
InjectPayload ==
    /\ Running
    /\ \E n \in 0..MaxItems :
          wire' = [bytes |-> RlpList(Repeat(<<1>>, n)), origin |-> "inject", src |-> Empty]
    /\ last' = [op |-> "inject", arg |-> 0, res |-> "Ok", val |-> 0, pre |-> acct]
    /\ steps' = steps + 1
    /\ UNCHANGED <<acct, startedEmpty, overflowChecks, decoded, aborted>>
    /\ UNCHANGED txVars

\* rlp::decode::<Account>(&wire)
DecodeAccount ==
    /\ Running
    /\ wire.origin # "none"
    /\ decoded' = decode_Account(wire.bytes)
    /\ last' = [op |-> "decode", arg |-> 0, res |-> decoded'.kind, val |-> 0, pre |-> acct]
    /\ aborted' = (decoded'.kind = "panic")
    /\ steps' = steps + 1
    /\ UNCHANGED <<acct, startedEmpty, overflowChecks, wire>>
    /\ UNCHANGED txVars

Next ==
    \/ Balance
    \/ Nonce
    \/ BalanceMut
    \/ NonceMut
    \/ Deposit
    \/ Withdraw
    \/ EncodeAccount
    \/ InjectPayload
    \/ DecodeAccount

Spec == Init /\ [][Next]_vars


---------------------------------------------------------------------------
(* The Tx specification: one Tx, from Tx::new on *)

\* what callers pass and write
ToAddress == Repeat(6, AddrLen)

OtherToAddress == Repeat(7, AddrLen)

TxNonces == {0, 1}

TxValues == {0, 300}

TxCalls == {0, 1}

TxDatas == {<<>>, <<1, 2>>}

\* how a byte of the signature field is altered
Deltas == {1, 128}

ledgerVars == <<acct, startedEmpty, decoded, overflowChecks, steps>>

InitTx ==
    /\ acct = Empty
    /\ startedEmpty = TRUE
    /\ overflowChecks = FALSE
    /\ wire = NoWire
    /\ decoded = [kind |-> "none"]
    /\ last = [op |-> "init", res |-> "none"]
    /\ aborted = FALSE
    /\ steps = 0
    /\ TxIdle

\* the local Tx may be used: the process lives and no encoding of it is in transit
Live == ~aborted /\ wire.origin = "none"

NewTx ==
    /\ Live
    /\ tx = NoTx
    /\ \E sk \in ValidKeys, nonce_ \in TxNonces : tx' = TxNew(AddressOf(sk), ToAddress, nonce_)
    /\ last' = [op |-> "new", res |-> "Ok"]
    /\ UNCHANGED <<signer, signedTx, tampered, edits, chk, chkAge, wire, aborted>>
    /\ UNCHANGED ledgerVars

Signed(skey, r) ==
    /\ tx' = r.tx
    /\ last' = [op |-> "sign", res |-> r.res]
    /\ aborted' = (r.res = "panic")
    /\ signer' = IF r.res = "Ok" THEN skey ELSE signer
    /\ signedTx' = IF r.res = "Ok" THEN r.tx ELSE signedTx
    /\ tampered' = IF r.res = "Ok" THEN 0 ELSE tampered
    /\ chkAge' = IF r.res = "Ok" THEN "stale" ELSE chkAge
    /\ chk' = IF r.res = "Ok" THEN NoCheck ELSE chk

Sign ==
    /\ Live
    /\ tx # NoTx
    /\ \E b \in 0..NKeys : Signed(SKey(b), sign(tx, SKey(b)))
    /\ UNCHANGED <<edits, wire>>
    /\ UNCHANGED ledgerVars

SigCheck ==
    /\ Live
    /\ tx # NoTx
    /\ chk' = sig_check(tx)
    /\ chkAge' = "fresh"
    /\ last' = [op |-> "sig_check", res |-> chk'.kind]
    /\ aborted' = (chk'.kind = "panic")
    /\ UNCHANGED <<tx, signer, signedTx, tampered, edits, wire>>
    /\ UNCHANGED ledgerVars

\* a write to one pub field of tx
Write(field, after) ==
    /\ Live
    /\ tx # NoTx
    /\ tampered = 0
    /\ edits < MaxEdits
    /\ after # tx
    /\ tx' = after
    /\ edits' = edits + 1
    /\ chkAge' = "stale"
    /\ chk' = NoCheck
    /\ last' = [op |-> "write", res |-> field]
    /\ UNCHANGED <<signer, signedTx, tampered, wire, aborted>>
    /\ UNCHANGED ledgerVars

SetTo == Write("to", [tx EXCEPT !.to = NibblesOfBytes(OtherToAddress)])

SetNonce == \E v \in TxNonces : Write("nonce", [tx EXCEPT !.nonce = v])

SetValue == \E v \in TxValues : Write("value", [tx EXCEPT !.value = v])

SetCall == \E v \in TxCalls : Write("call", [tx EXCEPT !.call = v])

SetData == \E v \in TxDatas : Write("data", [tx EXCEPT !.data = v])

\* one byte of the signature field of a signed tx, its fields as Tx::new left them, becomes
\* another byte
Tamper(i) ==
    /\ Live
    /\ signer # NoKey
    /\ edits = 0
    /\ tampered = 0
    /\ \E d \in Deltas : tx' = [tx EXCEPT !.signature[i] = (tx.signature[i] + d) % 256]
    /\ tampered' = i
    /\ chkAge' = "stale"
    /\ chk' = NoCheck
    /\ last' = [op |-> "tamper", res |-> "Ok"]
    /\ UNCHANGED <<signer, signedTx, edits, wire, aborted>>
    /\ UNCHANGED ledgerVars

TamperRecoveryId == Tamper(SigLen)

TamperSignature == \E i \in 1..SigBodyLen : Tamper(i)

\* rlp::encode(&tx)
EncodeTx ==
    /\ Live
    /\ tx # NoTx
    /\ tampered = 0
    /\ wire' = [bytes |-> rlp_append_Tx(tx), origin |-> "encode", src |-> Empty]
    /\ last' = [op |-> "encode", res |-> "Ok"]
    /\ UNCHANGED <<tx, signer, signedTx, tampered, edits, chk, chkAge, aborted>>
    /\ UNCHANGED ledgerVars

\* rlp::decode::<Tx>(&wire): the receiver's Tx
Receive(r) ==
    /\ tx' = IF r.ok THEN r.val ELSE tx
    /\ last' = [op |-> "decode", res |-> IF r.ok THEN "Ok" ELSE r.err]
    /\ chkAge' = IF r.ok /\ chkAge = "fresh" THEN "recoded" ELSE chkAge

DecodeTx ==
    /\ ~aborted
    /\ wire.origin = "encode"
    /\ Receive(decode_Tx(wire.bytes))
    /\ wire' = NoWire
    /\ UNCHANGED <<signer, signedTx, tampered, edits, chk, aborted>>
    /\ UNCHANGED ledgerVars

NextTx ==
    \/ NewTx
    \/ Sign
    \/ SigCheck
    \/ SetTo
    \/ SetNonce
    \/ SetValue
    \/ SetCall
    \/ SetData
    \/ TamperRecoveryId
    \/ TamperSignature
    \/ EncodeTx
    \/ DecodeTx

SpecTx == InitTx /\ [][NextTx]_vars

---------------------------------------------------------------------------
(* Claims about the ledger operations and the Account codec, under Spec *)

\* C1: withdraw(a) on an Existing account with balance b >= a returns success and
\* leaves the balance at b - a.
C1_WithdrawSubtracts ==
    (last.op = "withdraw" /\ last.pre.tag = "Existing" /\ last.arg <= last.pre.balance)
        => (last.res = "Ok" /\ acct.balance = last.pre.balance - last.arg)

\* C4: decoding the encoding of an Account gives back an equal Account, Empty included.
C4_AccountRoundTrip ==
    (last.op = "decode" /\ wire.origin = "encode")
        => (decoded.kind = "Ok" /\ decoded.val = wire.src)

\* C5: decoding a payload whose outer item count is neither 0 nor 5 returns a decoder
\* error; the process goes on and no Account is returned.
C5_BadItemCountIsError ==
    (last.op = "decode" /\ item_count(wire.bytes).ok
        /\ item_count(wire.bytes).val \notin {0, AccountItems})
        => (decoded.kind = "Err" /\ ~aborted)

\* C6: deposit(amount) on an Existing account with balance b returns success and leaves
\* the balance at b + amount; on Empty it returns the invalid-account-state error.
C6_DepositAdds ==
    last.op = "deposit"
        => IF last.pre.tag = "Existing"
           THEN last.res = "Ok" /\ acct.balance = last.pre.balance + last.arg
           ELSE last.res = ErrDepositEmpty

\* C7: withdraw beyond the balance returns the insufficient-balance error, withdraw on
\* Empty the invalid-account-state error, and either leaves the account as it was.
C7_WithdrawErrorsLeaveAccount ==
    last.op = "withdraw"
        => /\ (last.pre.tag = "Existing" /\ last.pre.balance < last.arg)
                 => (last.res = ErrInsufficient /\ acct = last.pre)
           /\ last.pre.tag = "Empty"
                 => (last.res = ErrWithdrawEmpty /\ acct = last.pre)

C7_Witness ==
    /\ last.op = "withdraw"
    /\ last.pre.tag = "Existing"
    /\ last.pre.balance < last.arg
    /\ last.res = ErrInsufficient

\* C8: an account that started Empty is Empty after any sequence of calls: balance and
\* nonce return 0, balance_mut and nonce_mut return None, deposit and withdraw fail.
C8_EmptyStaysEmpty ==
    startedEmpty
        => /\ acct = Empty
           /\ last.op \in {"balance", "nonce"} => last.val = 0
           /\ last.op \in {"balance_mut", "nonce_mut"} => last.res = "None"
           /\ last.op = "deposit" => last.res = ErrDepositEmpty
           /\ last.op = "withdraw" => last.res = ErrWithdrawEmpty

C8_Witness ==
    /\ startedEmpty
    /\ steps >= 2
    /\ last.op = "deposit"
    /\ last.res = ErrDepositEmpty

---------------------------------------------------------------------------
(* Claims about Tx, under SpecTx *)

\* the address (as a NibbleKey) of the key of the last sign
SignerAddress == NibblesOfBytes(AddressOf(signer))

Unsigned(t) == t.signature = Repeat(0, SigLen)

\* the fields of tx that are not what the last sign signed
Edited ==
    IF signedTx = NoTx THEN {}
    ELSE {f \in {"to", "nonce", "value", "call", "data"} : tx[f] # signedTx[f]}

\* C2: when from is the address derived from k, sign(k) followed by sig_check returns
\* (true, addr) with addr the address derived from k and equal to from, whatever to,
\* nonce, value, call and data are.
C2_SignThenCheck ==
    (last.op = "sig_check" /\ signer # NoKey /\ Edited = {} /\ tampered = 0
        /\ tx.from = SignerAddress)
        => (chk = Returns(TRUE, SignerAddress) /\ chk.addr = tx.from)

C2_Witness ==
    /\ last.op = "sig_check"
    /\ signer # NoKey /\ Edited = {} /\ tampered = 0
    /\ tx.from = SignerAddress
    /\ chk.valid

\* C3: after one byte of the signature field of a signed Tx is changed, sig_check returns,
\* and what it returns is (false, _) or an address other than the signer's.
C3_TamperedIsRejected ==
    (last.op = "sig_check" /\ tampered # 0)
        => (chk.kind = "ret" /\ (~chk.valid \/ chk.addr # SignerAddress))

\* C9, the states: Tx::new leaves 65 zero bytes; a sign that returned left the signature
\* in bytes 0..64 and the recovery id in byte 64; a signed Tx is not Unsigned.
C9_States ==
    /\ last.op = "new" => (Unsigned(tx) /\ signer = NoKey)
    /\ (last.op = "sign" /\ last.res = "Ok")
          => /\ Len(tx.signature) = SigLen
             /\ Take(tx.signature, SigBodyLen) = secp256k1_sign(SignDigest(tx), signer).sig
             /\ tx.signature[SigLen] = secp256k1_sign(SignDigest(tx), signer).recid
    /\ (signer # NoKey /\ tampered = 0) => ~Unsigned(tx)

\* C9, the steps: sign changes no field but signature; neither sign nor sig_check makes a
\* signed Tx Unsigned; sig_check changes no field and repeats its result.
C9_Steps ==
    /\ last'.op = "sign" => [tx' EXCEPT !.signature = tx.signature] = tx
    /\ (last'.op \in {"sign", "sig_check"} /\ ~Unsigned(tx)) => ~Unsigned(tx')
    /\ last'.op = "sig_check" => (tx' = tx /\ (chkAge = "fresh" => chk' = chk))

\* C9: the Tx lifecycle Unsigned -> Signed, with sig_check a read that repeats.
C9_TxLifecycle == [](C9_States) /\ [][C9_Steps]_vars

C9_Witness ==
    /\ last.op = "sig_check"
    /\ signer # NoKey
    /\ chk.kind = "ret"
    /\ ~Unsigned(tx)

\* C10, the states: sign and sig_check hash the encodings of from, to, nonce, value, call
\* and data, in that order, and nothing of signature; after one of to, nonce, value, call,
\* data of a Tx signed by the key of its from address is no longer what was signed,
\* sig_check does not return (true, address of the key).
C10_States ==
    /\ tx # NoTx
          => /\ SignDigest(tx) = SigCheckDigest(tx)
             /\ SignDigest(tx) =
                   KeccakResult(RlpNibbleKey(tx.from) \o RlpNibbleKey(tx.to)
                                \o RlpUint(tx.nonce) \o RlpUint(tx.value)
                                \o RlpUint(tx.call) \o RlpBytes(tx.data))
    /\ (last.op = "sig_check" /\ signer # NoKey /\ tampered = 0 /\ tx.from = SignerAddress
          /\ Edited # {})
          => chk # Returns(TRUE, SignerAddress)

\* C10, the steps: sig_check of the decoded encoding of a Tx returns what it returned
\* before the Tx was encoded.
C10_Steps == (last'.op = "sig_check" /\ chkAge = "recoded") => chk' = chk

\* C10: the signature binds from, to, nonce, value, call, data and survives the codec.
C10_SignatureBindsFields == [](C10_States) /\ [][C10_Steps]_vars

C10_Witness ==
    /\ last.op = "sig_check"
    /\ signer # NoKey /\ tampered = 0 /\ tx.from = SignerAddress
    /\ Edited = {"data"}
    /\ chk.kind = "ret" /\ ~chk.valid

====
